---- MODULE Spec2Model ----
(***************************************************************************)
(* State-machine model of the telemetry correlation and fault-injection    *)
(* subsystem of observable-nodejs-app:                                     *)
(*   - config/metrics.js       recording functions over the two registries *)
(*   - app.js                  metrics middleware (res.end wrapper)        *)
(*   - middleware/errorHandler terminal error handler                      *)
(*   - services/chaosService   chaos engine                                *)
(*   - controllers/chaosController, controllers/userController             *)
(*                                                                         *)
(* JavaScript values are records [t, v]: t is the kind of value and v its  *)
(* integer payload.  Durations are kept in clock units (the division by    *)
(* 1000 of app.js:56 is a change of unit), probabilities in units of       *)
(* 1/One.                                                                  *)
(***************************************************************************)
EXTENDS Integers, Sequences, FiniteSets, TLC

VARIABLES
    config,               \* ChaosService.config: service name -> policy object
    memoryLeakInterval,   \* ChaosService.memoryLeakInterval: timer handle, 0 = null
    intervals,            \* interval timers still scheduled by the runtime
    timeouts,             \* end-of-window timeouts still pending
    blocks,               \* blocks appended so far by each simulation's interval
    nextTimer,            \* next timer handle the runtime hands out
    immediates,           \* simulateMemoryLeak calls queued with setImmediate
    lastOp,               \* the last chaos operation: its arguments, HTTP status, result
    regA,                 \* Registry A (OpenTelemetry meter): observations written
    regB,                 \* Registry B (prom-client registry): observations written
    callLog,              \* calls of the recording functions made directly
    clock,                \* the wall clock read by Date.now()
    req,                  \* per request: position and what the middleware captured
    outcome,              \* how the last direct recording call ended for its caller
    held,                 \* the value getStatus last returned, as its caller holds it
    exposure              \* the pull endpoints of Registry B set up at startup

vars == <<config, memoryLeakInterval, intervals, timeouts, blocks, nextTimer,
          immediates, lastOp, regA, regB, callLog, clock, req, outcome, held, exposure>>

timerVars == <<memoryLeakInterval, intervals, timeouts, blocks, nextTimer, immediates>>
chaosVars == <<config, timerVars, lastOp>>
metricVars == <<regA, regB, callLog>>
pipelineVars == <<clock, req>>
observerVars == <<outcome, held, exposure>>

-----------------------------------------------------------------------------
(* Bounds of the model *)

HalfScale == 1          \* probabilities are multiples of 1/(2*HalfScale)
MaxCalls == 2           \* direct calls of the recording functions
MaxClock == 2           \* largest wall-clock reading
MaxEndCalls == 2        \* res.end invocations on one response
MaxSimulations == 2     \* memory-leak simulations started
MaxBlocks == 2          \* blocks one simulation appends
MaxHeldWrites == 1      \* writes a holder makes to a value getStatus returned

One == 2 * HalfScale    \* the probability 1.0

-----------------------------------------------------------------------------
(* JavaScript values *)

Num(n) == [t |-> "num", v |-> n]          \* the finite integer n
Frac(n) == [t |-> "frac", v |-> n]        \* the finite non-integer n + 1/2
NaN == [t |-> "nan", v |-> 0]
PosInf == [t |-> "inf", v |-> 0]          \* Infinity
NegInf == [t |-> "ninf", v |-> 0]         \* -Infinity
Str == [t |-> "str", v |-> 0]             \* a non-empty, non-numeric string
Null == [t |-> "null", v |-> 0]
Undef == [t |-> "undef", v |-> 0]         \* undefined, or an absent property
Bool(b) == [t |-> "bool", v |-> IF b THEN 1 ELSE 0]

\* typeof x === 'number'
IsNumberType(x) == x.t \in {"num", "frac", "nan", "inf", "ninf"}

\* ToNumber(x) is NaN
ToNumberIsNaN(x) == x.t \in {"nan", "str", "undef"}

\* isNaN(x)
IsNaN(x) == ToNumberIsNaN(x)

\* twice ToNumber(x), for the values whose ToNumber is finite
Twice(x) ==
    CASE x.t = "num" -> 2 * x.v
      [] x.t = "frac" -> 2 * x.v + 1
      [] x.t = "bool" -> 2 * x.v
      [] OTHER -> 0

\* x < y, with the operands coerced by ToNumber
Lt(x, y) ==
    IF ToNumberIsNaN(x) \/ ToNumberIsNaN(y) THEN FALSE
    ELSE IF x.t = "inf" \/ y.t = "ninf" THEN FALSE
    ELSE IF x.t = "ninf" \/ y.t = "inf" THEN TRUE
    ELSE Twice(x) < Twice(y)

\* ToBoolean(x)
Truthy(x) ==
    CASE x.t = "num" -> x.v # 0
      [] x.t = "bool" -> x.v = 1
      [] x.t \in {"nan", "null", "undef"} -> FALSE
      [] OTHER -> TRUE

\* x || y
Or(x, y) == IF Truthy(x) THEN x ELSE y

\* a destructuring or parameter default: d replaces undefined only
Default(x, d) == IF x = Undef THEN d ELSE x

-----------------------------------------------------------------------------
(* Chaos engine: services/chaosService.js *)

KnownServices == {"database", "api"}
NoService == "<undefined>"      \* the request body names no service
NoSuspend == [t |-> "nosuspend", v |-> 0]   \* injectLatency returned without awaiting

DefaultService == "database"
DefaultDuration == 1000
DefaultProbability == HalfScale       \* 0.5
DefaultEnabled == Bool(TRUE)

EmptyPolicy == [latency |-> Undef, failureRate |-> Undef, enabled |-> Undef]
ZeroPolicy == [latency |-> Num(0), failureRate |-> Num(0), enabled |-> Bool(FALSE)]

\* constructor
ChaosService_constructor == [s \in KnownServices |-> ZeroPolicy]

\* this.config.get(service) || {}
PolicyOrEmpty(cfg, service) ==
    IF service \in DOMAIN cfg THEN cfg[service] ELSE EmptyPolicy

\* this.config.set(service, policy)
MapSet(cfg, service, policy) ==
    [s \in (DOMAIN cfg) \cup {service} |-> IF s = service THEN policy ELSE cfg[s]]

configureLatency_ResetsRate(cfg, service, duration, enabled) ==
    MapSet(cfg, service,
           [EmptyPolicy EXCEPT !.latency = duration,
                               !.enabled = Default(enabled, DefaultEnabled)])

configureLatency(cfg, service, duration, enabled) ==
    LET policy == PolicyOrEmpty(cfg, service)
    IN  MapSet(cfg, service,
               [policy EXCEPT !.latency = duration,
                              !.enabled = Default(enabled, DefaultEnabled)])

configureFailureRate(cfg, service, rate, enabled) ==
    LET policy == PolicyOrEmpty(cfg, service)
    IN  MapSet(cfg, service,
               [policy EXCEPT !.failureRate = rate,
                              !.enabled = Default(enabled, DefaultEnabled)])

\* the duration injectLatency awaits, or NoSuspend when it returns at once
injectLatency_NoEnabledGate(cfg, service, duration) ==
    IF service \notin DOMAIN cfg THEN NoSuspend
    ELSE IF cfg[service].latency = Num(0) THEN NoSuspend
    ELSE Or(duration, cfg[service].latency)

injectLatency(cfg, service, duration) ==
    IF service \notin DOMAIN cfg THEN NoSuspend
    ELSE IF ~Truthy(cfg[service].enabled) \/ cfg[service].latency = Num(0)
         THEN NoSuspend
         ELSE Or(duration, cfg[service].latency)

\* the value injectRandomFailure resolves to when Math.random() returns draw/One
injectRandomFailure_InclusiveDraw(cfg, service, draw) ==
    IF service \notin DOMAIN cfg THEN FALSE
    ELSE IF ~Truthy(cfg[service].enabled) THEN FALSE
    ELSE Lt(Num(draw), cfg[service].failureRate) \/ cfg[service].failureRate = Num(draw)

injectRandomFailure(cfg, service, draw) ==
    IF service \notin DOMAIN cfg THEN FALSE
    ELSE IF ~Truthy(cfg[service].enabled) \/ cfg[service].failureRate = Num(0)
         THEN FALSE
         ELSE Lt(Num(draw), cfg[service].failureRate)

\* the configuration part of disableAllChaos
disableAllChaos_KeepLatency(cfg) ==
    [s \in DOMAIN cfg |-> [cfg[s] EXCEPT !.enabled = Bool(FALSE),
                                         !.failureRate = Num(0)]]

disableAllChaos(cfg) ==
    [s \in DOMAIN cfg |-> [cfg[s] EXCEPT !.enabled = Bool(FALSE),
                                         !.latency = Num(0),
                                         !.failureRate = Num(0)]]

\* Object.fromEntries(this.config)
getStatus(cfg) == [s \in DOMAIN cfg |-> cfg[s]]

\* clearInterval(handle): a null handle or a timer already cleared is left alone
clearInterval(active, handle) == active \ {handle}

NoData == [s \in {} |-> ZeroPolicy]

\* no value of getStatus is held
NoStatus == [keys |-> {}, writes |-> 0]

\* the process has not loaded config/metrics.js and app.js yet
NoScrape == [surface |-> "", status |-> 0, observations |-> 0]
NotStarted ==
    [started |-> FALSE, customServer |-> FALSE, mainRoute |-> FALSE, scrape |-> NoScrape]

\* what lastOp keeps of an operation; a status read also keeps, in prev, the
\* operation it follows
Op(op, service, arg, status, ret, data) ==
    [op |-> op, prev |-> "", service |-> service, arg |-> arg,
     status |-> status, ret |-> ret, data |-> data]

-----------------------------------------------------------------------------
(* Chaos endpoints: controllers/chaosController.js.  The arguments are the   *)
(* fields of the JSON request body; the status is the one the handler sends. *)

ServiceInputs == {"database", "cache", NoService}
TargetServices == {"database", "api", "cache"}
DurationInputs == {Num(0), Undef}
EnabledInputs == {Bool(FALSE), Undef}
ProbabilityInputs ==
    {Num(0 - 1), Num(0), Num(One), Num(One + 1), Undef, Str}
OverrideInputs == {Undef, Num(3)}
Draws == 0 .. (One - 1)                 \* Math.random() is in [0, 1)

BodyService(service) == IF service = NoService THEN DefaultService ELSE service

Controller_configureLatency(service, duration, enabled) ==
    LET s == BodyService(service)
        d == Default(duration, Num(DefaultDuration))
        e == Default(enabled, DefaultEnabled)
    IN  /\ config' = configureLatency(config, s, d, e)
        /\ lastOp' = Op("configureLatency", s, d, 200, Undef, NoData)
        /\ UNCHANGED <<timerVars, metricVars, pipelineVars, observerVars>>

ProbabilityRejected_UpperOnly(p) == Lt(Num(One), p)

\* the range check of the handler
ProbabilityRejected(p) == Lt(p, Num(0)) \/ Lt(Num(One), p)

Controller_configureRandomFailure(service, probability, enabled) ==
    LET s == BodyService(service)
        p == Default(probability, Num(DefaultProbability))
        e == Default(enabled, DefaultEnabled)
    IN  /\ IF ProbabilityRejected(p)
           THEN /\ config' = config
                /\ lastOp' = Op("configureRandomFailure", s, p, 400, Undef, NoData)
           ELSE /\ config' = configureFailureRate(config, s, p, e)
                /\ lastOp' = Op("configureRandomFailure", s, p, 200, Undef, NoData)
        /\ UNCHANGED <<timerVars, metricVars, pipelineVars, observerVars>>

Controller_disableAll ==
    /\ config' = disableAllChaos(config)
    /\ intervals' = IF memoryLeakInterval # 0
                    THEN clearInterval(intervals, memoryLeakInterval)
                    ELSE intervals
    /\ lastOp' = Op("disableAll", NoService, Undef, 200, Undef, NoData)
    /\ UNCHANGED <<memoryLeakInterval, timeouts, blocks, nextTimer, immediates,
                   metricVars, pipelineVars, observerVars>>

Controller_getStatus ==
    /\ lastOp' = [Op("getStatus", NoService, Undef, 200, Undef, getStatus(config))
                      EXCEPT !.prev = lastOp.op]
    /\ UNCHANGED <<config, timerVars, metricVars, pipelineVars, observerVars>>

\* a call chaosService.injectLatency(service, duration) by application code
InjectLatency(service, duration) ==
    /\ lastOp' = Op("injectLatency", service, duration, 0,
                    injectLatency(config, service, duration), NoData)
    /\ UNCHANGED <<config, timerVars, metricVars, pipelineVars, observerVars>>

\* a call chaosService.injectRandomFailure(service) by application code
InjectRandomFailure(service, draw) ==
    /\ lastOp' = Op("injectRandomFailure", service, Num(draw), 0,
                    Bool(injectRandomFailure(config, service, draw)), NoData)
    /\ UNCHANGED <<config, timerVars, metricVars, pipelineVars, observerVars>>

\* The value getStatus returns is a new object whose properties are the policy
\* objects of the map themselves; the map's policy objects are changed in
\* place and never replaced, so the value a caller holds reads, for each of
\* its keys, the policy the map has now.
HeldValue(h, cfg) == [s \in h.keys |-> cfg[s]]

\* code of the process calls chaosService.getStatus() and keeps the value
CallGetStatus ==
    /\ held' = [keys |-> DOMAIN getStatus(config), writes |-> 0]
    /\ UNCHANGED <<chaosVars, metricVars, pipelineVars, outcome, exposure>>

\* the holder assigns held[service].latency = value
WriteHeld(service, value) ==
    /\ service \in held.keys
    /\ held.writes < MaxHeldWrites
    /\ held' = [held EXCEPT !.writes = @ + 1]
    /\ config' = [config EXCEPT ![service].latency = value]
    /\ UNCHANGED <<timerVars, lastOp, metricVars, pipelineVars, outcome, exposure>>

\* a string value / a thrown Error with its message
StrOf(str) == [t |-> "str", v |-> 0, s |-> str]
Thrown(message) == [t |-> "throw", v |-> 0, message |-> message]

ErrorTypeInputs == {StrOf("TIMEOUT"), StrOf("BOGUS"), Undef}

\* the Error simulateDatabaseError throws; it reads and writes no field of the service
simulateDatabaseError(errorType) ==
    LET type == Default(errorType, StrOf("CONNECTION_ERROR"))
    IN  Thrown(CASE type = StrOf("CONNECTION_ERROR") -> "ECONNREFUSED: Connection refused"
                 [] type = StrOf("TIMEOUT") -> "ETIMEDOUT: Query timeout"
                 [] type = StrOf("DEADLOCK") -> "Deadlock detected"
                 [] type = StrOf("CONSTRAINT_VIOLATION") -> "Unique constraint violation"
                 [] OTHER -> "Unknown database error")

\* the awaited call throws, the catch hands the error to the error handler,
\* which answers err.statusCode || err.status || 500
Controller_triggerDatabaseError(errorType) ==
    /\ lastOp' = Op("triggerDatabaseError", NoService, errorType, 500,
                    simulateDatabaseError(Default(errorType, StrOf("CONNECTION_ERROR"))),
                    NoData)
    /\ UNCHANGED <<config, timerVars, metricVars, pipelineVars, observerVars>>

-----------------------------------------------------------------------------
(* Memory-leak simulation: chaosController.triggerMemoryLeak and             *)
(* chaosService.simulateMemoryLeak.  A simulation's interval and its         *)
(* end-of-window timeout carry the simulation's handle.                      *)

Controller_triggerMemoryLeak ==
    /\ nextTimer + immediates <= MaxSimulations
    /\ immediates' = immediates + 1
    /\ lastOp' = Op("triggerMemoryLeak", NoService, Undef, 200, Undef, NoData)
    /\ UNCHANGED <<config, memoryLeakInterval, intervals, timeouts, blocks, nextTimer,
                   metricVars, pipelineVars, observerVars>>

\* the setImmediate callback runs simulateMemoryLeak
simulateMemoryLeak ==
    /\ immediates > 0
    /\ immediates' = immediates - 1
    /\ memoryLeakInterval' = nextTimer
    /\ intervals' = intervals \cup {nextTimer}
    /\ timeouts' = timeouts \cup {nextTimer}
    /\ blocks' = [i \in (DOMAIN blocks) \cup {nextTimer} |->
                     IF i = nextTimer THEN 0 ELSE blocks[i]]
    /\ nextTimer' = nextTimer + 1
    /\ UNCHANGED <<config, lastOp, metricVars, pipelineVars, observerVars>>

\* the setInterval callback of simulation i appends one block
MemoryLeakTick(i) ==
    /\ i \in intervals
    /\ blocks[i] < MaxBlocks
    /\ blocks' = [blocks EXCEPT ![i] = @ + 1]
    /\ UNCHANGED <<config, memoryLeakInterval, intervals, timeouts, nextTimer,
                   immediates, lastOp, metricVars, pipelineVars, observerVars>>

\* the setTimeout callback of simulation i clears this.memoryLeakInterval
MemoryLeakTimeout(i) ==
    /\ i \in timeouts
    /\ timeouts' = timeouts \ {i}
    /\ intervals' = clearInterval(intervals, memoryLeakInterval)
    /\ UNCHANGED <<config, memoryLeakInterval, blocks, nextTimer, immediates,
                   lastOp, metricVars, pipelineVars, observerVars>>

-----------------------------------------------------------------------------
(* Registries and recording functions: config/metrics.js.  A registry is the *)
(* sequence of the observations written to it; a label set is               *)
(* <<name, path, value>>: (method, route, status_code), (operation, table)   *)
(* or (error_type, route), a path being a sequence of tokens.                *)

NoSpan == [traceId |-> "", spanId |-> ""]        \* no span is active
NoExemplar == [traceId |-> "", spanId |-> ""]    \* exemplarLabels is undefined
Spans == {[traceId |-> "t1", spanId |-> "s1"], [traceId |-> "t2", spanId |-> "s2"]}

Faults == {"none", "A.histogram", "A.counter", "B.histogram", "B.counter"}

Obs(metric, labels, value, exemplar) ==
    [metric |-> metric, labels |-> labels, value |-> value, exemplar |-> exemplar]

\* twice the total of the finite values observed in the series (metric, labels):
\* twice a counter's value, twice a histogram's sum
RECURSIVE SeriesTotal2(_, _, _, _)
SeriesTotal2(reg, metric, labels, n) ==
    IF n = 0 THEN 0
    ELSE SeriesTotal2(reg, metric, labels, n - 1)
         + (IF reg[n].metric = metric /\ reg[n].labels = labels
            THEN Twice(reg[n].value) ELSE 0)

Total2(reg, metric, labels) == SeriesTotal2(reg, metric, labels, Len(reg))

\* the label sets of the series present in a registry
LabelSets(reg) == {reg[i].labels : i \in 1 .. Len(reg)}

getExemplarLabels_SpanIdOnly(span) ==
    IF span = NoSpan THEN NoExemplar
    ELSE [traceId |-> span.spanId, spanId |-> span.spanId]

\* span is trace.getSpan(context.active()), NoSpan when there is none
getExemplarLabels(span) ==
    IF span = NoSpan THEN NoExemplar
    ELSE [traceId |-> span.traceId, spanId |-> span.spanId]

\* String(route || 'unknown')
RoutePath(route) == IF route = <<>> THEN <<"unknown">> ELSE route

\* String(method || 'UNKNOWN')
MethodStr(method) == IF method = "" THEN "UNKNOWN" ELSE method

InvalidDuration(duration) ==
    ~IsNumberType(duration) \/ IsNaN(duration) \/ Lt(duration, Num(0))

InvalidStatusCode(statusCode) == ~IsNumberType(statusCode) \/ IsNaN(statusCode)

\* the two writes of one try block: a throw by the first skips the second
TryWrites(reg, first, second, firstFault, secondFault, fault) ==
    IF fault = firstFault THEN reg
    ELSE IF fault = secondFault THEN Append(reg, first)
    ELSE Append(Append(reg, first), second)

recordHttpRequest_SkipRegistryB(regs, method, route, statusCode, duration, span, fault) ==
    IF InvalidDuration(duration) THEN regs
    ELSE IF InvalidStatusCode(statusCode) THEN regs
    ELSE LET labels == <<MethodStr(method), RoutePath(route), statusCode>>
         IN  [A |-> TryWrites(regs.A,
                        Obs("http_request_duration_seconds", labels, duration, NoExemplar),
                        Obs("http_requests_total", labels, Num(1), NoExemplar),
                        "A.histogram", "A.counter", fault),
              B |-> IF span = NoSpan THEN regs.B
                    ELSE TryWrites(regs.B,
                        Obs("http_request_duration_seconds_custom", labels, duration,
                            getExemplarLabels(span)),
                        Obs("http_requests_total_custom", labels, Num(1),
                            getExemplarLabels(span)),
                        "B.histogram", "B.counter", fault)]

recordHttpRequest_SingleTry(regs, method, route, statusCode, duration, span, fault) ==
    IF InvalidDuration(duration) THEN regs
    ELSE IF InvalidStatusCode(statusCode) THEN regs
    ELSE LET labels == <<MethodStr(method), RoutePath(route), statusCode>>
             ex == getExemplarLabels(span)
         IN  [A |-> TryWrites(regs.A,
                        Obs("http_request_duration_seconds", labels, duration, NoExemplar),
                        Obs("http_requests_total", labels, Num(1), NoExemplar),
                        "A.histogram", "A.counter", fault),
              B |-> IF fault \in {"A.histogram", "A.counter"} THEN regs.B
                    ELSE TryWrites(regs.B,
                        Obs("http_request_duration_seconds_custom", labels, duration, ex),
                        Obs("http_requests_total_custom", labels, Num(1), ex),
                        "B.histogram", "B.counter", fault)]

recordHttpRequest(regs, method, route, statusCode, duration, span, fault) ==
    IF InvalidDuration(duration) THEN regs
    ELSE IF InvalidStatusCode(statusCode) THEN regs
    ELSE LET labels == <<MethodStr(method), RoutePath(route), statusCode>>
             ex == getExemplarLabels(span)
         IN  [A |-> TryWrites(regs.A,
                        Obs("http_request_duration_seconds", labels, duration, NoExemplar),
                        Obs("http_requests_total", labels, Num(1), NoExemplar),
                        "A.histogram", "A.counter", fault),
              B |-> TryWrites(regs.B,
                        Obs("http_request_duration_seconds_custom", labels, duration, ex),
                        Obs("http_requests_total_custom", labels, Num(1), ex),
                        "B.histogram", "B.counter", fault)]

recordDatabaseQuery(regs, operation, table, duration, span, fault) ==
    LET labels == <<operation, table, Undef>>
        ex == getExemplarLabels(span)
    IN  [A |-> IF fault = "A.histogram" THEN regs.A
               ELSE Append(regs.A, Obs("database_query_duration_seconds", labels,
                                       duration, NoExemplar)),
         B |-> IF fault = "B.histogram" THEN regs.B
               ELSE Append(regs.B, Obs("database_query_duration_seconds_custom", labels,
                                       duration, ex))]

recordError(regs, errorType, route, span, fault) ==
    LET labels == <<errorType, route, Undef>>
        ex == getExemplarLabels(span)
    IN  [A |-> regs.A,
         B |-> IF fault = "B.counter" THEN regs.B
               ELSE Append(regs.B, Obs("application_errors_total", labels, Num(1), ex))]

\* the statements of a recording function that write to a registry, each with
\* whether it stands inside a try block whose catch only logs
Writes(fn) ==
    CASE fn = "recordHttpRequest" ->
            {[write |-> w, inTry |-> TRUE] :
                w \in {"A.histogram", "A.counter", "B.histogram", "B.counter"}}
      [] fn = "recordDatabaseQuery" ->
            {[write |-> w, inTry |-> TRUE] : w \in {"A.histogram", "B.histogram"}}
      [] fn = "recordError" ->
            {[write |-> "B.counter", inTry |-> TRUE]}

\* how a call ends when the write named fault throws
Outcome(fn, fault) ==
    IF \E w \in Writes(fn) : w.write = fault /\ ~w.inTry THEN "threw" ELSE "returned"

-----------------------------------------------------------------------------
(* Direct calls of the recording functions *)

HttpMetricA == "http_requests_total"
HttpMetricB == "http_requests_total_custom"
HttpHistogramA == "http_request_duration_seconds"
HttpHistogramB == "http_request_duration_seconds_custom"

Call(fn, name, path, statusCode, duration, span, fault) ==
    [fn |-> fn, name |-> name, path |-> path, statusCode |-> statusCode,
     duration |-> duration, span |-> span, fault |-> fault]

\* arguments with which the recording functions are called
ValidHttpArgs ==
    {Call("recordHttpRequest", "GET", r, st, d, NoSpan, "none") :
        r \in {<<"/api/users">>, <<"/health">>},
        st \in {Num(200), Num(500)},
        d \in {Num(0), Num(2)}}
DefaultedHttpArgs ==
    {Call("recordHttpRequest", "", <<>>, Num(200), Num(2), NoSpan, "none"),
     Call("recordHttpRequest", "GET", <<"/health">>, Num(200), Frac(0), NoSpan, "none")}
BadDurationArgs ==
    {Call("recordHttpRequest", "GET", <<"/api/users">>, Num(200), d, NoSpan, "none") :
        d \in {Num(0 - 1), NaN, PosInf, Str}}
BadStatusArgs ==
    {Call("recordHttpRequest", "GET", <<"/api/users">>, st, Num(2), NoSpan, "none") :
        st \in {NaN, PosInf, Frac(200), Str}}
DatabaseArgs ==
    {Call("recordDatabaseQuery", "READ", <<"users">>, Undef, d, NoSpan, "none") :
        d \in {Num(2), Num(0 - 1)}}
ErrorArgs ==
    {Call("recordError", "Error", <<"/api/users", "/1">>, Undef, Undef, NoSpan, "none")}

WithSpan(c, span) == [c EXCEPT !.span = span]
WithFault(c, fault) == [c EXCEPT !.fault = fault]

FaultFree ==
    {WithSpan(c, sp) :
        c \in ValidHttpArgs \cup DefaultedHttpArgs \cup BadDurationArgs
              \cup BadStatusArgs \cup DatabaseArgs \cup ErrorArgs,
        sp \in Spans \cup {NoSpan}}
Faulty ==
    {WithFault(c, f) :
        c \in {WithSpan(c0, [traceId |-> "t1", spanId |-> "s1"]) :
                  c0 \in {Call("recordHttpRequest", "GET", <<"/api/users">>, Num(200),
                               Num(2), NoSpan, "none"),
                          Call("recordDatabaseQuery", "READ", <<"users">>, Undef,
                               Num(2), NoSpan, "none")}
                         \cup ErrorArgs},
        f \in Faults \ {"none"}}
Calls == FaultFree \cup Faulty

Registries == [A |-> regA, B |-> regB]

\* the registries after the call c
AfterCall(regs, c) ==
    CASE c.fn = "recordHttpRequest" ->
            recordHttpRequest(regs, c.name, c.path, c.statusCode, c.duration, c.span, c.fault)
      [] c.fn = "recordDatabaseQuery" ->
            recordDatabaseQuery(regs, c.name, c.path, c.duration, c.span, c.fault)
      [] c.fn = "recordError" ->
            recordError(regs, c.name, c.path, c.span, c.fault)

RecordHttpRequest(c) ==
    /\ c.fn = "recordHttpRequest"
    /\ Len(callLog) < MaxCalls
    /\ regA' = AfterCall(Registries, c).A
    /\ regB' = AfterCall(Registries, c).B
    /\ callLog' = Append(callLog, c)
    /\ outcome' = Outcome(c.fn, c.fault)
    /\ UNCHANGED <<chaosVars, pipelineVars, held, exposure>>

RecordDatabaseQuery(c) ==
    /\ c.fn = "recordDatabaseQuery"
    /\ Len(callLog) < MaxCalls
    /\ regA' = AfterCall(Registries, c).A
    /\ regB' = AfterCall(Registries, c).B
    /\ callLog' = Append(callLog, c)
    /\ outcome' = Outcome(c.fn, c.fault)
    /\ UNCHANGED <<chaosVars, pipelineVars, held, exposure>>

RecordError(c) ==
    /\ c.fn = "recordError"
    /\ Len(callLog) < MaxCalls
    /\ regA' = AfterCall(Registries, c).A
    /\ regB' = AfterCall(Registries, c).B
    /\ callLog' = Append(callLog, c)
    /\ outcome' = Outcome(c.fn, c.fault)
    /\ UNCHANGED <<chaosVars, pipelineVars, held, exposure>>

-----------------------------------------------------------------------------
(* Pull endpoints of Registry B: config/metrics.js (custom metrics server)   *)
(* and app.js (custom metrics route).  An environment string is the sequence *)
(* of its characters.                                                        *)

Unset == [set |-> FALSE, text |-> <<>>]          \* the variable is not in the environment
EnvString(text) == [set |-> TRUE, text |-> text]

\* values of METRICS_CUSTOM_PORT
PortSettings ==
    {Unset, EnvString(<<>>), EnvString(<<"9", "4">>), EnvString(<<"0">>),
     EnvString(<<"a", "b">>), EnvString(<<"9", "a">>)}

DigitOf == [ch \in {"0", "4", "9"} |-> CASE ch = "0" -> 0 [] ch = "4" -> 4 [] ch = "9" -> 9]

\* the number the leading digits of text[i..] continue, acc being the digits read
RECURSIVE ParseDigits(_, _, _)
ParseDigits(text, i, acc) ==
    IF i > Len(text) \/ text[i] \notin DOMAIN DigitOf THEN acc
    ELSE ParseDigits(text, i + 1, 10 * acc + DigitOf[text[i]])

\* parseInt(text, 10) of a string without blanks or sign
parseInt(text) ==
    IF text = <<>> \/ text[1] \notin DOMAIN DigitOf THEN NaN
    ELSE Num(ParseDigits(text, 1, 0))

\* process.env.METRICS_CUSTOM_PORT || ''
OrEmpty(setting) == IF setting.set THEN setting.text ELSE <<>>

NumberIsFinite(x) == x.t \in {"num", "frac"}

\* config/metrics.js: the dedicated server is created and listens
StartsCustomServer(setting) ==
    LET port == parseInt(OrEmpty(setting))
    IN  NumberIsFinite(port) /\ Lt(Num(0), port)

\* app.js: !process.env.METRICS_CUSTOM_PORT, the route is mounted on the main app
MountsMainRoute(setting) == ~(setting.set /\ setting.text # <<>>)

\* the modules are loaded under a value of METRICS_CUSTOM_PORT
Startup(setting) ==
    /\ ~exposure.started
    /\ exposure' = [started |-> TRUE,
                    customServer |-> StartsCustomServer(setting),
                    mainRoute |-> MountsMainRoute(setting),
                    scrape |-> NoScrape]
    /\ UNCHANGED <<chaosVars, metricVars, pipelineVars, outcome, held>>

Surfaces == {"main", "custom"}

\* GET of the custom metrics path on a surface: the status (0 when nothing
\* listens), and how many observations of Registry B the answer carries
Scrape(surface) ==
    /\ exposure.started
    /\ LET served == IF surface = "main" THEN exposure.mainRoute
                     ELSE exposure.customServer
       IN  exposure' = [exposure EXCEPT !.scrape =
                          [surface |-> surface,
                           status |-> IF served THEN 200
                                      ELSE IF surface = "main" THEN 404 ELSE 0,
                           observations |-> IF served THEN Len(regB) ELSE 0]]
    /\ UNCHANGED <<chaosVars, metricVars, pipelineVars, outcome, held>>

-----------------------------------------------------------------------------
(* Request pipeline: app.js (metrics middleware and 404 handler),           *)
(* middleware/traceContext.js, controllers/userController.js,               *)
(* middleware/errorHandler.js.                                              *)

Requests == {1, 2}                     \* request ids
NoRoute == <<"<no route>">>            \* req.route is undefined

\* the span the HTTP instrumentation opened for request r, when tracing is on
SpanOf(r) == IF r = 1 THEN [traceId |-> "t1", spanId |-> "s1"]
             ELSE [traceId |-> "t2", spanId |-> "s2"]

\* routes/userRoutes.js mounted at /api/users, and a path no route matches
Endpoints ==
    {[method |-> "GET", path |-> <<"/api/users">>, url |-> <<"/api/users">>,
      baseUrl |-> <<"/api/users">>, routePath |-> <<"/">>, db |-> TRUE],
     [method |-> "GET", path |-> <<"/api/users", "/1">>, url |-> <<"/api/users", "/1">>,
      baseUrl |-> <<"/api/users">>, routePath |-> <<"/:id">>, db |-> TRUE],
     [method |-> "GET", path |-> <<"/nope">>, url |-> <<"/nope">>, baseUrl |-> <<>>,
      routePath |-> NoRoute, db |-> FALSE]}

\* GET /api/users/:id for two ids
ByIdEndpoints ==
    {[method |-> "GET", path |-> <<"/api/users", id>>, url |-> <<"/api/users", id>>,
      baseUrl |-> <<"/api/users">>, routePath |-> <<"/:id">>, db |-> TRUE] :
        id \in {"/1", "/2"}}

\* requests with a query string: req.url carries it, req.path does not
QueryEndpoints ==
    {[method |-> "GET", path |-> <<"/api/users">>,
      url |-> <<"/api/users", "?", "page=2">>,
      baseUrl |-> <<"/api/users">>, routePath |-> <<"/">>, db |-> TRUE],
     [method |-> "GET", path |-> <<"/nope", "/7">>, url |-> <<"/nope", "/7", "?", "x=1">>,
      baseUrl |-> <<>>, routePath |-> NoRoute, db |-> FALSE]}

\* errors business logic raises: err.name and err.statusCode || err.status
Errors ==
    {[name |-> "Error", status |-> Undef, message |-> "Can't reach database server"],
     [name |-> "", status |-> Num(503), message |-> ""]}

IdleRequest ==
    [pc |-> "idle", method |-> "", path |-> <<>>, url |-> <<>>, baseUrl |-> <<>>,
     routePath |-> NoRoute,
     db |-> FALSE, span |-> NoSpan, spanName |-> <<>>, start |-> 0, statusCode |-> 200,
     failed |-> FALSE, httpCalls |-> 0, errorCalls |-> 0, ends |-> 0, elapsed |-> 0,
     latency |-> NoSuspend, failure |-> FALSE, after |-> "none", message |-> "",
     body |-> "", route |-> <<>>, sent |-> 0, steps |-> {}, passedOn |-> FALSE,
     caught |-> 0, flushed |-> 0, wire |-> ""]

\* route.split('?')[0]
BeforeQuery(route) ==
    IF \E i \in 1 .. Len(route) : route[i] = "?"
    THEN SubSeq(route, 1, (CHOOSE i \in 1 .. Len(route) :
                               route[i] = "?" /\ \A j \in 1 .. (i - 1) : route[j] # "?") - 1)
    ELSE route

\* the route label the res.end wrapper resolves
ResolveRoute(q) ==
    BeforeQuery(IF q.routePath # NoRoute THEN q.baseUrl \o q.routePath
                ELSE IF q.path # <<>> THEN q.path
                ELSE IF q.url # <<>> THEN q.url ELSE <<"unknown">>)

\* the wrapper's own check before it records
WrapperRecords(duration, statusCode) ==
    /\ IsNumberType(duration) /\ ~IsNaN(duration) /\ ~Lt(duration, Num(0))
    /\ IsNumberType(statusCode) /\ ~IsNaN(statusCode)

\* a step inside the wrapper's try block that throws: rootSpan.updateName, or
\* the call of recordHttpRequest
WrapperFaults == {"none", "updateName", "recordHttpRequest"}

\* the step named fault is reached by this invocation and throws
WrapperThrows(q, route, records, fault) ==
    \/ fault = "updateName" /\ q.span # NoSpan /\ route # <<>>
    \/ fault = "recordHttpRequest" /\ records

ResEndWith_SharedStart(q, regs, now, fault) ==
    LET duration == Num(now)
        route == ResolveRoute(q)
        records == WrapperRecords(duration, Num(q.statusCode))
        threw == WrapperThrows(q, route, records, fault)
    IN  [q |-> [q EXCEPT !.spanName = IF q.span # NoSpan /\ route # <<>> /\ ~threw
                                      THEN <<q.method>> \o route ELSE @,
                         !.httpCalls = IF records /\ ~threw THEN @ + 1 ELSE @,
                         !.route = IF records /\ ~threw THEN RoutePath(route) ELSE @,
                         !.ends = @ + 1,
                         !.caught = IF threw THEN @ + 1 ELSE @,
                         !.flushed = @ + 1,
                         !.wire = q.body,
                         !.pc = "done"],
         regs |-> IF records /\ ~threw
                  THEN recordHttpRequest(regs, q.method, route, Num(q.statusCode),
                                         duration, q.span, "none")
                  ELSE regs]

ResEndWith_NoTry(q, regs, now, fault) ==
    LET duration == Num(now - q.start)
        route == ResolveRoute(q)
        records == WrapperRecords(duration, Num(q.statusCode))
        threw == WrapperThrows(q, route, records, fault)
    IN  [q |-> [q EXCEPT !.spanName = IF q.span # NoSpan /\ route # <<>> /\ ~threw
                                      THEN <<q.method>> \o route ELSE @,
                         !.httpCalls = IF records /\ ~threw THEN @ + 1 ELSE @,
                         !.route = IF records /\ ~threw THEN RoutePath(route) ELSE @,
                         !.ends = @ + 1,
                         !.flushed = IF threw THEN @ ELSE @ + 1,
                         !.wire = IF threw THEN @ ELSE q.body,
                         !.pc = "done"],
         regs |-> IF records /\ ~threw
                  THEN recordHttpRequest(regs, q.method, route, Num(q.statusCode),
                                         duration, q.span, "none")
                  ELSE regs]

\* one invocation of the wrapped res.end of request q at wall-clock time now,
\* the step named fault throwing: the request record and the registries after
\* it. A throw skips the remaining steps of the try block, is logged by the
\* catch block (caught), and originalEnd.apply(res, args) runs in every case
\* (flushed counts its calls, wire is the body it was given).
ResEndWith(q, regs, now, fault) ==
    LET duration == Num(now - q.start)
        route == ResolveRoute(q)
        records == WrapperRecords(duration, Num(q.statusCode))
        threw == WrapperThrows(q, route, records, fault)
    IN  [q |-> [q EXCEPT !.spanName = IF q.span # NoSpan /\ route # <<>> /\ ~threw
                                      THEN <<q.method>> \o route ELSE @,
                         !.httpCalls = IF records /\ ~threw THEN @ + 1 ELSE @,
                         !.route = IF records /\ ~threw THEN RoutePath(route) ELSE @,
                         !.ends = @ + 1,
                         !.caught = IF threw THEN @ + 1 ELSE @,
                         !.flushed = @ + 1,
                         !.wire = q.body,
                         !.pc = "done"],
         regs |-> IF records /\ ~threw
                  THEN recordHttpRequest(regs, q.method, route, Num(q.statusCode),
                                         duration, q.span, "none")
                  ELSE regs]

\* the wrapped res.end when no step throws
ResEnd(q, regs, now) == ResEndWith(q, regs, now, "none")

\* the steps of errorHandler, in the order of its statements
HandlerSteps == <<"span", "log", "status", "recordError", "send">>

\* a step of errorHandler that throws: span.recordException, or logger.error
HandlerFaults == {"none", "span", "logger"}

\* the statement at which errorHandler is left by an exception, 6 when by none:
\* res.json throws when the response's headers have been sent
ThrowsAt(q, fault) ==
    IF fault = "span" /\ q.span # NoSpan THEN 1
    ELSE IF fault = "logger" THEN 2
    ELSE IF q.sent > 0 THEN 5
    ELSE 6

\* errorHandler(err, req, res, next), up to res.json: the error has left the
\* router, which restored req.baseUrl; no statement is inside a try block, so
\* a throw ends the handler at that statement
errorHandlerWith(q, regs, err, fault) ==
    LET at == ThrowsAt(q, fault)
    IN  [q |-> [q EXCEPT !.failed = TRUE,
                         !.steps = {HandlerSteps[i] : i \in {j \in 1 .. 5 : j <= at}},
                         !.errorCalls = IF at > 4 THEN @ + 1 ELSE @,
                         !.baseUrl = <<>>,
                         !.statusCode = IF at > 4 THEN Or(err.status, Num(500)).v ELSE @,
                         !.message = IF at > 5
                                     THEN IF err.message = "" THEN "Internal Server Error"
                                          ELSE err.message
                                     ELSE @,
                         !.body = IF at > 5 THEN "error" ELSE @,
                         !.sent = IF at > 5 THEN @ + 1 ELSE @],
         regs |-> IF at > 4
                  THEN recordError(regs, IF err.name = "" THEN "UnknownError" ELSE err.name,
                                   q.path, q.span, "none")
                  ELSE regs,
         threw |-> at < 6]

\* errorHandler when none of its statements throws
errorHandler(q, regs, err) == errorHandlerWith(q, regs, err, "none")

\* the framework's default handler, which gets the error errorHandler threw:
\* it answers err.status || 500 itself, or drops the connection when the
\* response has already been started
finalHandler(q, err) ==
    IF q.sent > 0 THEN [q EXCEPT !.passedOn = TRUE, !.pc = "done"]
    ELSE [q EXCEPT !.passedOn = TRUE, !.statusCode = Or(err.status, Num(500)).v,
                   !.body = "html", !.sent = 1]

\* request r arrives for endpoint e: trace context middleware, metrics
\* middleware, routing; an unmatched path is answered by the 404 handler
Arrive(r, e, span) ==
    /\ req[r].pc = "idle"
    /\ LET q == [IdleRequest EXCEPT !.pc = "inflight", !.method = e.method,
                                    !.path = e.path, !.url = e.url,
                                    !.baseUrl = e.baseUrl,
                                    !.routePath = e.routePath, !.db = e.db,
                                    !.span = span, !.start = clock,
                                    !.latency = injectLatency(config, "database", Undef),
                                    !.failure = \A d \in Draws :
                                        injectRandomFailure(config, "database", d),
                                    !.after = lastOp.op]
           out == ResEnd([q EXCEPT !.statusCode = 404, !.body = "error", !.sent = 1,
                                   !.message = "Route not found"], Registries, clock)
       IN  IF e.db
           THEN /\ req' = [req EXCEPT ![r] = q]
                /\ UNCHANGED <<regA, regB>>
           ELSE /\ req' = [req EXCEPT ![r] = out.q]
                /\ regA' = out.regs.A
                /\ regB' = out.regs.B
    /\ UNCHANGED <<chaosVars, callLog, clock, observerVars>>

\* userController.getAll / getById after the awaited service call returned:
\* res.status(200).json(...)
Respond(r) ==
    /\ req[r].pc = "inflight"
    /\ LET out == ResEnd([req[r] EXCEPT !.body = "data", !.sent = 1], Registries, clock)
       IN  /\ req' = [req EXCEPT ![r] = out.q]
           /\ regA' = out.regs.A
           /\ regB' = out.regs.B
    /\ UNCHANGED <<chaosVars, callLog, clock, observerVars>>

\* the awaited service call threw: next(error), errorHandler, res.json
Fail(r, err) ==
    /\ req[r].pc = "inflight"
    /\ LET handled == errorHandler(req[r], Registries, err)
           out == ResEnd(handled.q, handled.regs, clock)
       IN  /\ req' = [req EXCEPT ![r] = out.q]
           /\ regA' = out.regs.A
           /\ regB' = out.regs.B
    /\ UNCHANGED <<chaosVars, callLog, clock, observerVars>>

\* the awaited service call threw and a statement of errorHandler throws as
\* well: the framework hands the error to its default handler
FailWith(r, err, fault) ==
    /\ req[r].pc = "inflight"
    /\ LET handled == errorHandlerWith(req[r], Registries, err, fault)
           out == IF handled.threw
                  THEN ResEnd(finalHandler(handled.q, err), handled.regs, clock)
                  ELSE ResEnd(handled.q, handled.regs, clock)
       IN  /\ req' = [req EXCEPT ![r] = out.q]
           /\ regA' = out.regs.A
           /\ regB' = out.regs.B
    /\ UNCHANGED <<chaosVars, callLog, clock, observerVars>>

\* an error is passed to next() after the response of r has been started
FailLate(r, err, fault) ==
    /\ req[r].pc = "done"
    /\ req[r].sent = 1
    /\ ~req[r].failed
    /\ LET handled == errorHandlerWith(req[r], Registries, err, fault)
       IN  /\ req' = [req EXCEPT ![r] = finalHandler(handled.q, err)]
           /\ regA' = handled.regs.A
           /\ regB' = handled.regs.B
    /\ UNCHANGED <<chaosVars, callLog, clock, observerVars>>

\* res.end is invoked again on a finished response: the wrapper is still installed
ResEndAgain(r) ==
    /\ req[r].pc = "done"
    /\ req[r].ends < MaxEndCalls
    /\ LET out == ResEnd(req[r], Registries, clock)
       IN  /\ req' = [req EXCEPT ![r] = out.q]
           /\ regA' = out.regs.A
           /\ regB' = out.regs.B
    /\ UNCHANGED <<chaosVars, callLog, clock, observerVars>>

\* the handler responds and a step of the res.end wrapper throws
RespondWith(r, fault) ==
    /\ req[r].pc = "inflight"
    /\ LET out == ResEndWith([req[r] EXCEPT !.body = "data", !.sent = 1], Registries,
                             clock, fault)
       IN  /\ req' = [req EXCEPT ![r] = out.q]
           /\ regA' = out.regs.A
           /\ regB' = out.regs.B
    /\ UNCHANGED <<chaosVars, callLog, clock, observerVars>>

\* errorHandler responds and a step of the res.end wrapper throws
FailEndWith(r, err, fault) ==
    /\ req[r].pc = "inflight"
    /\ LET handled == errorHandler(req[r], Registries, err)
           out == ResEndWith(handled.q, handled.regs, clock, fault)
       IN  /\ req' = [req EXCEPT ![r] = out.q]
           /\ regA' = out.regs.A
           /\ regB' = out.regs.B
    /\ UNCHANGED <<chaosVars, callLog, clock, observerVars>>

\* time passes
Tick ==
    /\ clock < MaxClock
    /\ \A r \in Requests : req[r].pc = "inflight" => req[r].elapsed < MaxClock
    /\ clock' = clock + 1
    /\ req' = [r \in Requests |->
                  IF req[r].pc = "inflight" THEN [req[r] EXCEPT !.elapsed = @ + 1]
                  ELSE req[r]]
    /\ UNCHANGED <<chaosVars, metricVars, observerVars>>

\* the wall clock is set back
ClockStepBack ==
    /\ clock > 0
    /\ clock' = clock - 1
    /\ UNCHANGED <<chaosVars, metricVars, req, observerVars>>

-----------------------------------------------------------------------------
(* Specifications *)

Init ==
    /\ config = ChaosService_constructor
    /\ memoryLeakInterval = 0
    /\ intervals = {}
    /\ timeouts = {}
    /\ blocks = <<>>
    /\ nextTimer = 1
    /\ immediates = 0
    /\ lastOp = [op |-> "none", prev |-> "", service |-> NoService, arg |-> Undef,
                 status |-> 0, ret |-> Undef, data |-> NoData]
    /\ regA = <<>>
    /\ regB = <<>>
    /\ callLog = <<>>
    /\ clock = 0
    /\ req = [r \in Requests |-> IdleRequest]
    /\ outcome = "none"
    /\ held = NoStatus
    /\ exposure = NotStarted

\* the recording functions called directly
NextMetrics ==
    \E c \in Calls : RecordHttpRequest(c) \/ RecordDatabaseQuery(c) \/ RecordError(c)

\* the chaos engine, configured through its endpoints
NextChaos ==
    \/ \E s \in ServiceInputs, d \in DurationInputs, e \in EnabledInputs :
          Controller_configureLatency(s, d, e)
    \/ \E s \in ServiceInputs, p \in ProbabilityInputs, e \in EnabledInputs :
          Controller_configureRandomFailure(s, p, e)
    \/ Controller_disableAll
    \/ Controller_getStatus
    \/ \E t \in ErrorTypeInputs : Controller_triggerDatabaseError(t)
    \/ \E s \in TargetServices, d \in OverrideInputs : InjectLatency(s, d)
    \/ \E s \in TargetServices, d \in Draws : InjectRandomFailure(s, d)

\* memory-leak simulations
NextTimers ==
    \/ Controller_triggerMemoryLeak
    \/ simulateMemoryLeak
    \/ \E i \in 1 .. MaxSimulations : MemoryLeakTick(i) \/ MemoryLeakTimeout(i)
    \/ Controller_disableAll

\* one request through the pipeline, under the scenarios of debug/chaos-tests.sh
NextPipeline ==
    \/ \E e \in Endpoints, sp \in {NoSpan, SpanOf(1)} : Arrive(1, e, sp)
    \/ Respond(1)
    \/ ResEndAgain(1)
    \/ \E err \in Errors : Fail(1, err)
    \/ Tick
    \/ ClockStepBack
    \/ Controller_configureLatency("database", Num(2), Bool(TRUE))
    \/ Controller_configureRandomFailure("database", Num(One), Bool(TRUE))
    \/ Controller_triggerDatabaseError(StrOf("TIMEOUT"))
    \/ Controller_disableAll

\* two requests to the parameterized user route, answered or failed in any order
NextRoutes ==
    \/ \E r \in Requests, e \in ByIdEndpoints \cup QueryEndpoints, sp \in {NoSpan, SpanOf(2)} :
          Arrive(r, e, sp)
    \/ \E r \in Requests : Respond(r)
    \/ \E r \in Requests, err \in Errors : Fail(r, err)

\* requests that end in the error handler, with and without a throwing step
NextErrors ==
    \/ \E r \in Requests, e \in Endpoints, sp \in {NoSpan, SpanOf(2)} : Arrive(r, e, sp)
    \/ \E r \in Requests : Respond(r)
    \/ \E r \in Requests, err \in Errors, f \in HandlerFaults : FailWith(r, err, f)
    \/ \E r \in Requests, err \in Errors, f \in HandlerFaults : FailLate(r, err, f)

\* responses finalized through the res.end wrapper, with and without a
\* throwing step
NextWrapper ==
    \/ \E r \in Requests, e \in Endpoints \cup QueryEndpoints, sp \in {NoSpan, SpanOf(2)} :
          Arrive(r, e, sp)
    \/ \E r \in Requests, f \in WrapperFaults : RespondWith(r, f)
    \/ \E r \in Requests, err \in Errors, f \in WrapperFaults : FailEndWith(r, err, f)
    \/ Tick

\* the engine is reconfigured while memory-leak simulations run
NextFrame ==
    \/ \E s \in ServiceInputs, d \in DurationInputs, e \in EnabledInputs :
          Controller_configureLatency(s, d, e)
    \/ \E s \in ServiceInputs, p \in {Num(One), Num(One + 1), Undef}, e \in EnabledInputs :
          Controller_configureRandomFailure(s, p, e)
    \/ Controller_triggerMemoryLeak
    \/ simulateMemoryLeak
    \/ \E i \in 1 .. MaxSimulations : MemoryLeakTimeout(i)

\* two traced requests in flight at once, their steps interleaved
NextConcurrent ==
    \/ \E r \in Requests, e \in Endpoints : Arrive(r, e, SpanOf(r))
    \/ \E r \in Requests : Respond(r)
    \/ \E r \in Requests, err \in Errors : Fail(r, err)
    \/ Tick

\* startup under a port setting, errors recorded, Registry B scraped
NextExposure ==
    \/ \E p \in PortSettings : Startup(p)
    \/ \E c \in Calls : exposure.started /\ RecordError(c)
    \/ \E f \in Surfaces : Scrape(f)

\* a caller holds the value of getStatus while the engine is reconfigured
NextStatus ==
    \/ CallGetStatus
    \/ \E s \in TargetServices : WriteHeld(s, Num(3))
    \/ \E s \in {"database", "cache"} : Controller_configureLatency(s, Num(2), Bool(TRUE))
    \/ Controller_configureRandomFailure("database", Num(One), Bool(TRUE))
    \/ Controller_disableAll

Next == NextStatus \/ NextExposure \/ NextMetrics \/ NextChaos \/ NextTimers \/ NextPipeline \/ NextRoutes \/ NextErrors
            \/ NextWrapper \/ NextFrame \/ NextConcurrent

Spec == Init /\ [][Next]_vars
SpecMetrics == Init /\ [][NextMetrics]_vars
SpecChaos == Init /\ [][NextChaos]_vars
SpecTimers == Init /\ [][NextTimers]_vars
SpecPipeline == Init /\ [][NextPipeline]_vars
SpecRoutes == Init /\ [][NextRoutes]_vars
SpecErrors == Init /\ [][NextErrors]_vars
SpecExposure == Init /\ [][NextExposure]_vars
SpecStatus == Init /\ [][NextStatus]_vars
SpecWrapper == Init /\ [][NextWrapper]_vars
SpecFrame == Init /\ [][NextFrame]_vars
SpecConcurrent == Init /\ [][NextConcurrent]_vars

-----------------------------------------------------------------------------
(* Claims about the recording functions (SpecMetrics) *)

\* a step that makes the call c
IsCall(c) == callLog' = Append(callLog, c)

FiniteNonNegative(x) == x.t \in {"num", "frac"} /\ ~Lt(x, Num(0))
FiniteInteger(x) == x.t = "num"

ValidHttpCall(c) ==
    /\ c.fn = "recordHttpRequest"
    /\ c.name # "" /\ c.path # <<>>
    /\ FiniteInteger(c.statusCode) /\ c.statusCode.v >= 0
    /\ FiniteNonNegative(c.duration)
    /\ c.fault = "none"

HttpSeriesStep(c, reg, regNext, counter, histogram) ==
    LET L == <<c.name, c.path, c.statusCode>>
    IN  /\ Total2(regNext, counter, L) = Total2(reg, counter, L) + 2
        /\ Total2(regNext, histogram, L) = Total2(reg, histogram, L) + Twice(c.duration)
        /\ \A K \in (LabelSets(reg) \cup LabelSets(regNext)) \ {L} :
              /\ Total2(regNext, counter, K) = Total2(reg, counter, K)
              /\ Total2(regNext, histogram, K) = Total2(reg, histogram, K)

C2_InvalidInputsWriteNothing ==
    [][\A c \in Calls :
          (/\ IsCall(c)
           /\ c.fn = "recordHttpRequest"
           /\ (~FiniteNonNegative(c.duration) \/ ~FiniteInteger(c.statusCode)))
          => (regA' = regA /\ regB' = regB)]_vars

NewObservations(reg, regNext) ==
    {regNext[i] : i \in (Len(reg) + 1) .. Len(regNext)}

\* C3: every observation a recording function writes to Registry B carries an
\* exemplar exactly when a span is active at the call, and the exemplar is that
\* span's (traceId, spanId); no observation written to Registry A carries one.
C3_ExemplarIffActiveSpan ==
    [][\A c \in Calls :
          IsCall(c) =>
              /\ \A o \in NewObservations(regB, regB') :
                    /\ (o.exemplar # NoExemplar) <=> (c.span # NoSpan)
                    /\ c.span # NoSpan =>
                          /\ o.exemplar.traceId = c.span.traceId
                          /\ o.exemplar.spanId = c.span.spanId
              /\ \A o \in NewObservations(regA, regA') : o.exemplar = NoExemplar]_vars

\* a call under span (t2, s2) and a call without a span, both written to
\* Registry A and Registry B
C3_Witness ==
    /\ Len(callLog) = 2
    /\ callLog[1].span = [traceId |-> "t2", spanId |-> "s2"]
    /\ callLog[2].span = NoSpan
    /\ callLog[2].fn = "recordDatabaseQuery"
    /\ Len(regA) = 3
    /\ Len(regB) = 3
    /\ regB[1].exemplar = [traceId |-> "t2", spanId |-> "s2"]
    /\ regB[3].exemplar = NoExemplar

-----------------------------------------------------------------------------
(* Claims about the chaos engine (SpecChaos) *)

OutOfRange(p) == p.t = "num" /\ (p.v < 0 \/ p.v > One)

C5_CertainAndImpossibleFailure ==
    lastOp.op = "injectRandomFailure" =>
        LET s == lastOp.service
        IN  /\ (/\ s \in DOMAIN config
                /\ config[s].enabled = Bool(TRUE)
                /\ config[s].failureRate = Num(One)) => lastOp.ret = Bool(TRUE)
            /\ (\/ s \notin DOMAIN config
                \/ config[s].enabled = Bool(FALSE)
                \/ config[s].failureRate = Num(0)) => lastOp.ret = Bool(FALSE)

\* the largest draw still fails under failureRate 1
C5_Witness ==
    /\ lastOp.op = "injectRandomFailure"
    /\ lastOp.service = "database"
    /\ lastOp.arg = Num(One - 1)
    /\ config["database"].enabled = Bool(TRUE)
    /\ config["database"].failureRate = Num(One)
    /\ lastOp.ret = Bool(TRUE)

\* C6: getStatus right after disableAllChaos shows every service of the map
\* with enabled=false, latency=0 and failureRate=0.
C6_DisableAllThenStatus ==
    (lastOp.op = "getStatus" /\ lastOp.prev = "disableAll") =>
        /\ DOMAIN lastOp.data = DOMAIN config
        /\ \A s \in DOMAIN lastOp.data :
              /\ lastOp.data[s].enabled = Bool(FALSE)
              /\ lastOp.data[s].latency = Num(0)
              /\ lastOp.data[s].failureRate = Num(0)

\* the status after disableAllChaos lists a service that only a configuration
\* call added
C6_Witness ==
    /\ lastOp.op = "getStatus"
    /\ lastOp.prev = "disableAll"
    /\ DOMAIN lastOp.data = {"database", "api", "cache"}
    /\ lastOp.data["cache"] = ZeroPolicy

\* C7: a service whose policy has enabled=false gets no injection: injectLatency
\* returns without suspending and injectRandomFailure returns false, whatever
\* latency, failureRate and override duration.
C7_DisabledInjectsNothing ==
    LET s == lastOp.service
    IN  (s \in DOMAIN config /\ config[s].enabled = Bool(FALSE)) =>
            /\ lastOp.op = "injectLatency" => lastOp.ret = NoSuspend
            /\ lastOp.op = "injectRandomFailure" => lastOp.ret = Bool(FALSE)

\* injectLatency with an override on a disabled policy that stores a latency
C7_Witness ==
    /\ lastOp.op = "injectLatency"
    /\ lastOp.service = "database"
    /\ lastOp.arg = Num(3)
    /\ config["database"].enabled = Bool(FALSE)
    /\ config["database"].latency = Num(DefaultDuration)
    /\ config["database"].failureRate = Num(One)
    /\ lastOp.ret = NoSuspend

-----------------------------------------------------------------------------
(* Claims about the request pipeline (SpecPipeline) *)

\* C8: recordHttpRequest is invoked exactly once for every request that went
\* through the metrics middleware, and not before the response is finalized.
C8_RecordedExactlyOnce ==
    \A r \in Requests :
        /\ req[r].pc = "done" => req[r].httpCalls = 1
        /\ req[r].pc # "done" => req[r].httpCalls = 0

\* C9: for a request that ended in the error handler, recordError ran once and
\* recordHttpRequest ran once, with the error status code.
C9_ErrorPathRecordsBoth ==
    \A r \in Requests :
        (req[r].pc = "done" /\ req[r].failed) =>
            /\ req[r].errorCalls = 1
            /\ req[r].httpCalls = 1
            /\ \E i \in 1 .. Len(regA) :
                  /\ regA[i].metric = HttpMetricA
                  /\ regA[i].labels[3] = Num(req[r].statusCode)

\* C10: a database request that arrived while latency injection was configured
\* for the database responds no earlier than that latency after it arrived.
C10_DatabaseRequestDelayed ==
    \A r \in Requests :
        (req[r].pc = "done" /\ req[r].db /\ req[r].latency # NoSuspend) =>
            req[r].elapsed >= req[r].latency.v

\* C11: a database request that arrived while the database policy made every
\* draw of injectRandomFailure fail ends in a 5xx response with the error
\* body, and recordError ran exactly once for it.
C11_CertainFailureFailsRequest ==
    \A r \in Requests :
        (req[r].pc = "done" /\ req[r].db /\ req[r].failure) =>
            /\ req[r].statusCode >= 500
            /\ req[r].errorCalls = 1
            /\ req[r].body = "error"

\* C12: a database request that arrived right after the database-error
\* endpoint was triggered with TIMEOUT fails with a message that names the
\* timeout, and one that arrived right after disable-all is not failed by it.
C12_TimeoutErrorFailsNextRequest ==
    \A r \in Requests :
        (req[r].pc = "done" /\ req[r].db) =>
            /\ req[r].after = "triggerDatabaseError" =>
                  (req[r].failed /\ req[r].message = "ETIMEDOUT: Query timeout")
            /\ req[r].after = "disableAll" =>
                  req[r].message # "ETIMEDOUT: Query timeout"

-----------------------------------------------------------------------------
(* Claims about route labels (SpecRoutes) *)

\* C13: two recorded requests that matched the parameterized user route with
\* different ids carry the same route label, the mount path joined with the
\* route template.
C13_ParameterizedRouteLabel ==
    \A r1 \in Requests, r2 \in Requests :
        (/\ req[r1].pc = "done" /\ req[r2].pc = "done"
         /\ req[r1].httpCalls > 0 /\ req[r2].httpCalls > 0
         /\ req[r1].routePath = <<"/:id">> /\ req[r2].routePath = <<"/:id">>
         /\ req[r1].path # req[r2].path)
        => /\ req[r1].route = req[r2].route
           /\ req[r1].route = <<"/api/users", "/:id">>

-----------------------------------------------------------------------------
(* Claims about the memory-leak simulation (SpecTimers) *)

\* C14: at every instant at most one memory-leak interval timer is scheduled.
C14_AtMostOneLeakTimer == Cardinality(intervals) <= 1

\* C15: when disableAllChaos returns, no memory-leak interval timer is left
\* scheduled, so no simulation started before the call appends another block.
C15_DisableAllStopsLeakTimers ==
    [][(lastOp'.op = "disableAll" /\ lastOp' # lastOp) => intervals' = {}]_vars

-----------------------------------------------------------------------------
(* Claims about the error handler (SpecErrors) *)

\* C16: for a request the error handler was invoked for, exactly one response
\* is sent and nothing runs after the handler, also when the response had
\* been started before the error reached it.
C16_HandlerSendsOneResponse ==
    \A r \in Requests :
        (req[r].pc = "done" /\ req[r].failed) =>
            /\ req[r].sent = 1
            /\ ~req[r].passedOn

\* C17: every invocation of the error handler attempts all five steps: the error
\* is recorded and the error body is sent whichever earlier step throws.
C17_AllStepsAttempted ==
    \A r \in Requests :
        (req[r].pc = "done" /\ req[r].failed) =>
            /\ req[r].steps = {"span", "log", "status", "recordError", "send"}
            /\ req[r].errorCalls = 1

-----------------------------------------------------------------------------
(* Claims about failing registry writes (SpecMetrics) *)

\* C18: a recording call during which a registry write throws still returns
\* normally to its caller, and when the throwing write is one to Registry A the
\* writes to Registry B are made as in a call without the throw.
C18_WriteFailureStaysInside ==
    [][\A c \in Calls :
          (IsCall(c) /\ c.fault # "none") =>
              /\ outcome' = "returned"
              /\ c.fault \in {"A.histogram", "A.counter"} =>
                    regB' = AfterCall(Registries, WithFault(c, "none")).B]_vars

\* recordHttpRequest returned although its first Registry A write threw, and
\* wrote both Registry B observations
C18_Witness ==
    /\ Len(callLog) = 1
    /\ callLog[1].fn = "recordHttpRequest"
    /\ callLog[1].fault = "A.histogram"
    /\ outcome = "returned"
    /\ regA = <<>>
    /\ Len(regB) = 2

-----------------------------------------------------------------------------
(* Claims about the pull endpoints of Registry B (SpecExposure) *)

\* C19: after startup, under every value of METRICS_CUSTOM_PORT, Registry B is
\* served on exactly one of the dedicated port and the main HTTP surface.
C19_ExposedExactlyOnce ==
    exposure.started => (exposure.customServer # exposure.mainRoute)

-----------------------------------------------------------------------------
(* Claims about the value of getStatus (SpecStatus) *)

\* C20: the value getStatus returned is a copy: no later call on the engine
\* changes a field of it, and a write to it by its holder changes no field of
\* the engine's configuration.
C20_StatusIsACopy ==
    [][/\ held' = held => HeldValue(held, config') = HeldValue(held, config)
       /\ held'.writes = held.writes + 1 => config' = config]_vars

-----------------------------------------------------------------------------
(* Claims about recordDatabaseQuery and recordError (SpecMetrics) *)

\* C21: every recordDatabaseQuery call and every recordError call, no write
\* throwing, adds one observation to Registry A and one observation with the
\* same labels to Registry B, the latter with an exemplar exactly when a span
\* is active.
C21_DualWritePattern ==
    [][\A c \in Calls :
          (/\ IsCall(c)
           /\ c.fn \in {"recordDatabaseQuery", "recordError"}
           /\ c.fault = "none")
          => /\ Len(regA') = Len(regA) + 1
             /\ Len(regB') = Len(regB) + 1
             /\ regA'[Len(regA')].labels = regB'[Len(regB')].labels
             /\ (regB'[Len(regB')].exemplar # NoExemplar) <=> (c.span # NoSpan)]_vars

-----------------------------------------------------------------------------
(* More claims about route labels (SpecRoutes) *)

\* the mount path of the router whose route the request matched
MountPath(q) ==
    (CHOOSE e \in Endpoints \cup ByIdEndpoints \cup QueryEndpoints :
         e.path = q.path /\ e.url = q.url).baseUrl

\* C22: the route label of a recorded request is the matched route pattern
\* prefixed by its mount path when a route matched, otherwise the raw request
\* path, and it never contains a query string.
C22_RoutePreferenceChain ==
    \A r \in Requests :
        LET q == req[r]
        IN  (q.pc = "done" /\ q.httpCalls > 0) =>
                /\ q.routePath # NoRoute => q.route = MountPath(q) \o q.routePath
                /\ (q.routePath = NoRoute /\ q.path # <<>>) => q.route = q.path
                /\ \A i \in 1 .. Len(q.route) : q.route[i] # "?"

-----------------------------------------------------------------------------
(* Claims about the res.end wrapper (SpecWrapper) *)

\* C23: whatever step of the wrapper throws, the exception is caught inside
\* the wrapper and the original res.end is still called, once per invocation,
\* with the arguments the wrapper was given.
C23_OriginalEndAlwaysCalled ==
    \A r \in Requests :
        /\ req[r].flushed = req[r].ends
        /\ req[r].ends > 0 => req[r].wire = req[r].body

C23_Witness ==
    \E r \in Requests :
        /\ req[r].caught = 1
        /\ req[r].httpCalls = 0
        /\ req[r].flushed = 1
        /\ req[r].wire = "data"

-----------------------------------------------------------------------------
(* More claims about the memory-leak simulation (SpecTimers) *)

\* C24: every memory-leak simulation stops ticking once its duration has
\* elapsed, also when simulations overlap: after the end-of-window timeout of
\* a simulation has run, its tick timer is no longer scheduled.
C24_StopsAfterDuration ==
    \A i \in DOMAIN blocks : i \notin timeouts => i \notin intervals

\* C30: the end-of-window timeout of an earlier simulation never cancels the
\* tick timer of a simulation started after it.
C30_TimeoutSparesLaterTimer ==
    [][\A i \in timeouts :
          i \notin timeouts' => \A j \in intervals : j > i => j \in intervals']_vars

-----------------------------------------------------------------------------
(* More claims about the chaos engine (SpecChaos) *)

\* a number other than zero
NonZero(x) == x.t = "num" /\ x.v # 0

\* C25: injectLatency suspends whenever the policy of the service is enabled
\* and the configured latency or the override duration is nonzero, in
\* particular with a configured latency of 0 and a nonzero override.
C25_OverrideSuspends ==
    LET s == lastOp.service
    IN  (/\ lastOp.op = "injectLatency"
         /\ s \in DOMAIN config
         /\ config[s].enabled = Bool(TRUE)
         /\ (NonZero(config[s].latency) \/ NonZero(lastOp.arg)))
        => lastOp.ret # NoSuspend

\* C26: every entry of the configuration has all three attributes: latency a
\* number >= 0, failureRate a number in [0,1], enabled a boolean.
C26_EntriesWellFormed ==
    \A s \in DOMAIN config :
        /\ config[s].latency.t = "num" /\ config[s].latency.v >= 0
        /\ config[s].failureRate.t = "num"
        /\ config[s].failureRate.v >= 0 /\ config[s].failureRate.v <= One
        /\ config[s].enabled.t = "bool"

-----------------------------------------------------------------------------
(* Claims about route labels in the registries (SpecRoutes) *)

\* path segments that are request ids, not parts of a route template
IdSegments == {"/1", "/2", "/7"}

\* C27: the route label of every observation, of the HTTP metrics and of
\* application_errors_total, is a route template: no raw path with an id.
C27_RouteLabelsAreTemplates ==
    \A reg \in {regA, regB} :
        \A i \in 1 .. Len(reg) :
            \A k \in 1 .. Len(reg[i].labels[2]) : reg[i].labels[2][k] \notin IdSegments

-----------------------------------------------------------------------------
(* Claims about what a configuration call leaves alone (SpecFrame) *)

\* C28: an accepted configureLatency call changes only latency and enabled of
\* the service it names, an accepted configureFailureRate call only
\* failureRate and enabled: the third attribute of that service, the entries
\* of all other services and the memory-leak timer handle stay as they were.
C28_ConfigureTouchesOnlyItsFields ==
    [][(/\ lastOp' # lastOp
        /\ lastOp'.op \in {"configureLatency", "configureRandomFailure"}
        /\ lastOp'.status = 200)
       => LET s == lastOp'.service
              before == PolicyOrEmpty(config, s)
          IN  /\ DOMAIN config' = (DOMAIN config) \cup {s}
              /\ \A t \in (DOMAIN config) \ {s} : config'[t] = config[t]
              /\ lastOp'.op = "configureLatency"
                    => config'[s].failureRate = before.failureRate
              /\ lastOp'.op = "configureRandomFailure"
                    => config'[s].latency = before.latency
              /\ memoryLeakInterval' = memoryLeakInterval
              /\ intervals' = intervals
              /\ timeouts' = timeouts]_vars

\* a failure rate, then a latency, configured for one service while a
\* memory-leak simulation runs
C28_Witness ==
    /\ lastOp.op = "configureLatency"
    /\ lastOp.service = "database"
    /\ config["database"].latency = Num(DefaultDuration)
    /\ config["database"].failureRate = Num(One)
    /\ config["api"] = ZeroPolicy
    /\ memoryLeakInterval # 0
    /\ memoryLeakInterval \in intervals

-----------------------------------------------------------------------------
(* Claims about requests in flight at the same time (SpecConcurrent) *)

\* the labels of the HTTP observations of request q, from q's own fields
OwnLabels(q) == <<q.method, RoutePath(ResolveRoute(q)), Num(q.statusCode)>>

\* the observation o is an HTTP observation of request q: q's method, route
\* and status code, and for a histogram q's own elapsed time
OwnObservation(o, q) ==
    /\ o.labels = OwnLabels(q)
    /\ o.metric \in {HttpHistogramA, HttpHistogramB} => o.value = Num(q.elapsed)
    /\ o.metric \in {HttpMetricA, HttpMetricB} => o.value = Num(1)

\* C29: under any interleaving of requests in flight, the HTTP observations
\* of a finished request are computed from that request's own start time,
\* method, route and status code, and the Registry B ones carry an exemplar
\* with that request's own trace id.
C29_ObservationsUseOwnRequest ==
    \A r \in Requests :
        LET q == req[r]
        IN  (q.pc = "done" /\ q.httpCalls = 1) =>
                /\ \A m \in {HttpHistogramA, HttpMetricA} :
                      \E i \in 1 .. Len(regA) :
                          regA[i].metric = m /\ OwnObservation(regA[i], q)
                /\ \A m \in {HttpHistogramB, HttpMetricB} :
                      \E i \in 1 .. Len(regB) :
                          /\ regB[i].metric = m
                          /\ regB[i].exemplar.traceId = q.span.traceId
                /\ \A i \in 1 .. Len(regB) :
                      (/\ regB[i].metric \in {HttpHistogramB, HttpMetricB}
                       /\ regB[i].exemplar.traceId = q.span.traceId)
                      => /\ OwnObservation(regB[i], q)
                         /\ regB[i].exemplar.spanId = q.span.spanId

\* request 2 arrived while request 1 was in flight and finished before it
C29_Witness ==
    /\ req[1].pc = "done" /\ req[2].pc = "done"
    /\ req[1].httpCalls = 1 /\ req[2].httpCalls = 1
    /\ req[1].start < req[2].start
    /\ req[1].elapsed > req[2].elapsed
    /\ OwnLabels(req[1]) # OwnLabels(req[2])
    /\ \E i, j \in 1 .. Len(regB) :
          /\ i < j
          /\ regB[i].metric = HttpHistogramB /\ regB[i].exemplar.traceId = "t2"
          /\ regB[j].metric = HttpHistogramB /\ regB[j].exemplar.traceId = "t1"

====
